---- MODULE Spec2Model ----
(***************************************************************************)
(* A model of wicker/schema/schema.py: the field classes, their            *)
(* constructors and validation, structural equality, the visitor dispatch, *)
(* and DatasetSchema with its primary-key validation and column index.     *)
(*                                                                         *)
(* The library is synchronous and its objects are values once built, so    *)
(* every call is one action: it draws its arguments from bounded sets of   *)
(* values the constructors themselves produce, runs the code of the call,  *)
(* and records the call and its outcome (a value, or the exception         *)
(* raised).  Tag dictionaries are the one piece of shared mutable storage; *)
(* TagSpec models them as a heap of dictionary objects.                    *)
(***************************************************************************)
EXTENDS Integers, Sequences, FiniteSets, TLC

VARIABLES call, ret, visits, heap, store

vars == <<call, ret, visits, heap, store>>

-----------------------------------------------------------------------------
(* Bounds of the model *)

\* longest field name tried against the name grammar
MaxNameLen == 2
\* most member fields of a RecordField / top-level fields of a DatasetSchema
MaxFields == 2
\* most entries of primary_keys
MaxKeys == 2
\* most field objects alive in the tag-storage heap
MaxHeap == 2

-----------------------------------------------------------------------------
(* Characters and names.  A name is a sequence of one-character strings. *)

LowerCase ==
  {"a","b","c","d","e","f","g","h","i","j","k","l","m",
   "n","o","p","q","r","s","t","u","v","w","x","y","z"}

UpperCase ==
  {"A","B","C","D","E","F","G","H","I","J","K","L","M",
   "N","O","P","Q","R","S","T","U","V","W","X","Y","Z"}

Digits == {"0","1","2","3","4","5","6","7","8","9"}

\* the characters names are built from: two letters, a digit, the underscore,
\* a character outside the grammar, and the line break
Chars == {"a", "Z", "7", "_", "-", "\n"}

SeqsUpTo(S, n) == UNION { [1..k -> S] : k \in 0..n }

Names == SeqsUpTo(Chars, MaxNameLen)

\* the character class [a-zA-Z]
IsAlpha(c) == c \in LowerCase \cup UpperCase

\* the character class [0-9a-zA-Z_]
IsWord(c) == c \in Digits \cup LowerCase \cup UpperCase \cup {"_"}

\* where Python's $ (no MULTILINE flag) matches after consuming the first k
\* characters of s: at the end of s, or just before a line break that ends s
DollarMatches(s, k) ==
  \/ k = Len(s)
  \/ k = Len(s) - 1 /\ s[Len(s)] = "\n"

\* re.match(r"^[a-zA-Z][0-9a-zA-Z_]*$", name) is not None
ReMatchName(name) ==
  \E k \in 1..Len(name) :
     /\ IsAlpha(name[1])
     /\ \A i \in 2..k : IsWord(name[i])
     /\ DollarMatches(name, k)

-----------------------------------------------------------------------------
(* Outcomes of a call *)

Ok(v) == [status |-> "ok", value |-> v]

Raise(kind, msg) == [status |-> "raise", kind |-> kind, msg |-> msg]

IsOk(r) == r.status = "ok"

-----------------------------------------------------------------------------
(* Fields *)

PRIMARY_KEYS_TAG == "_primary_keys"

ScalarKinds == {"Int", "Long", "String", "Bool", "Float", "Double"}

Kinds == ScalarKinds \cup {"Record", "Array", "Object"}

NoCodec == [name |-> "", params |-> 0]

\* a fault to test against: the name check raising the module's own exception
NameErrorKindWicker == "WickerSchemaException"

\* the exception SchemaField.__init__ raises for a name outside the grammar
NameErrorKind == "ValueError"

\* SchemaField.__init__: the attributes every field carries.  The variant's
\* own attributes are filled in by the variant's constructor.
SchemaFieldInit(kind, name, description, required, custom_field_tags) ==
  IF ~ReMatchName(name)
  THEN Raise(NameErrorKind, [tag |-> "name_grammar"])
  ELSE Ok([kind |-> kind,
           name |-> name,
           description |-> description,
           required |-> required,
           custom_field_tags |-> custom_field_tags,
           fields |-> <<>>,
           top_level |-> FALSE,
           element_field |-> <<>>,
           codec |-> NoCodec,
           heavy_flag |-> FALSE])

\* IntField(...), LongField(...), ...: the scalar variants add nothing
ScalarField(kind, name, description, required, custom_field_tags) ==
  SchemaFieldInit(kind, name, description, required, custom_field_tags)

\* the is_heavy_pointer property: False in SchemaField, overridden in
\* ObjectField to return _is_heavy_pointer
IsHeavyPointer(f) == IF f.kind = "Object" THEN f.heavy_flag ELSE FALSE

\* [f.name for f in fields if f.is_heavy_pointer]
RECURSIVE HeavyNames(_)
HeavyNames(fields) ==
  IF fields = <<>> THEN <<>>
  ELSE (IF IsHeavyPointer(Head(fields)) THEN <<Head(fields).name>> ELSE <<>>)
       \o HeavyNames(Tail(fields))

\* any([f.is_heavy_pointer for f in fields])
AnyHeavy(fields) == \E i \in 1..Len(fields) : IsHeavyPointer(fields[i])

\* a fault to test against: the member test made whatever top_level is
RecordFieldIgnoringTopLevel(name, fields, description, required, custom_field_tags, top_level) ==
  LET base == SchemaFieldInit("Record", name, description, required, custom_field_tags)
  IN  IF ~IsOk(base) THEN base
      ELSE IF AnyHeavy(fields)
      THEN Raise("WickerSchemaException",
                 [tag |-> "heavy_nested", names |-> HeavyNames(fields)])
      ELSE Ok([base.value EXCEPT !.fields = fields, !.top_level = top_level])

\* RecordField.__init__
RecordField(name, fields, description, required, custom_field_tags, top_level) ==
  LET base == SchemaFieldInit("Record", name, description, required, custom_field_tags)
  IN  IF ~IsOk(base) THEN base
      ELSE IF ~top_level /\ AnyHeavy(fields)
      THEN Raise("WickerSchemaException",
                 [tag |-> "heavy_nested", names |-> HeavyNames(fields)])
      ELSE Ok([base.value EXCEPT !.fields = fields, !.top_level = top_level])

\* ArrayField.__init__: name, description and tags are the element's
ArrayField(element_field, required) ==
  LET base == SchemaFieldInit("Array", element_field.name, element_field.description,
                              required, element_field.custom_field_tags)
  IN  IF ~IsOk(base) THEN base
      ELSE Ok([base.value EXCEPT !.element_field = <<element_field>>])

\* the three tags ObjectField.__init__ attaches
ObjectTags(codec) ==
  { <<"_l5ml_metatype", <<"object">> >>,
    <<"_codec_params", <<"json", codec.params>> >>,
    <<"_codec_name", <<codec.name>> >> }

\* ObjectField.__init__: the codec name is checked before the field name
ObjectField(name, codec, description, required, is_heavy_pointer) ==
  IF codec.name = ""
  THEN Raise("WickerSchemaException", [tag |-> "codec_name_empty"])
  ELSE LET base == SchemaFieldInit("Object", name, description, required, ObjectTags(codec))
       IN  IF ~IsOk(base) THEN base
           ELSE Ok([base.value EXCEPT !.heavy_flag = is_heavy_pointer, !.codec = codec])

-----------------------------------------------------------------------------
(* Equality *)

\* a value that is no SchemaField at all (the `other` of a comparison)
Foreign ==
  [kind |-> "Foreign", name |-> <<>>, description |-> "", required |-> TRUE,
   custom_field_tags |-> {}, fields |-> <<>>, top_level |-> FALSE,
   element_field |-> <<>>, codec |-> NoCodec, heavy_flag |-> FALSE]

\* isinstance(other, type(self)): no variant subclasses another
IsInstance(other, self) == other.kind = self.kind

\* SchemaField.__eq__
SchemaFieldEq(self, other) ==
  IF ~IsInstance(other, self) THEN FALSE
  ELSE IF self.name # other.name THEN FALSE
  ELSE IF self.description # other.description THEN FALSE
  ELSE IF self.required # other.required THEN FALSE
  ELSE TRUE

\* self.codec == other.codec: codecs are compared as values
CodecEq(c1, c2) == c1 = c2

Min(a, b) == IF a <= b THEN a ELSE b

\* the pairs zip(self.fields, other.fields) yields
ZipLen(xs, ys) == Min(Len(xs), Len(ys))

\* a fault to test against: no length test
SameLenAlways(xs, ys) == TRUE

\* the length test of RecordField.__eq__
SameLen(xs, ys) == Len(xs) = Len(ys)

\* self == other for a field `self`: the __eq__ of self's class.  Reading an
\* attribute the other object does not have raises AttributeError.
RECURSIVE FieldEq(_, _)
FieldEq(self, other) ==
  CASE self.kind = "Record" ->
         IF ~SchemaFieldEq(self, other) THEN Ok(FALSE)
         ELSE IF other.kind # "Record" THEN Raise("AttributeError", [tag |-> "fields"])
         ELSE IF ~SameLen(self.fields, other.fields) THEN Ok(FALSE)
         ELSE LET n  == ZipLen(self.fields, other.fields)
                  rs == [i \in 1..n |-> FieldEq(self.fields[i], other.fields[i])]
              IN  IF \E i \in 1..n : ~IsOk(rs[i])
                  THEN rs[CHOOSE i \in 1..n :
                            ~IsOk(rs[i]) /\ \A j \in 1..(i-1) : IsOk(rs[j])]
                  ELSE Ok(\A i \in 1..n : rs[i].value)
    [] self.kind = "Array" ->
         IF ~SchemaFieldEq(self, other) THEN Ok(FALSE)
         ELSE IF other.kind # "Array" THEN Raise("AttributeError", [tag |-> "element_field"])
         ELSE FieldEq(self.element_field[1], other.element_field[1])
    [] self.kind = "Object" ->
         IF ~SchemaFieldEq(self, other) THEN Ok(FALSE)
         ELSE IF other.kind # "Object" THEN Raise("AttributeError", [tag |-> "codec"])
         ELSE Ok(CodecEq(self.codec, other.codec))
    [] OTHER -> Ok(SchemaFieldEq(self, other))

-----------------------------------------------------------------------------
(* Dictionaries keep insertion order: a sequence of <<key, value>> entries *)

DictHas(d, k) == \E i \in 1..Len(d) : d[i][1] = k

DictKeys(d) == [i \in 1..Len(d) |-> d[i][1]]

\* d[k] for a key that is present
DictAt(d, k) == d[CHOOSE i \in 1..Len(d) : d[i][1] = k][2]

\* d[k] = v: a present key keeps its place and takes the new value
DictPut(d, k, v) ==
  IF DictHas(d, k)
  THEN [i \in 1..Len(d) |-> IF d[i][1] = k THEN <<k, v>> ELSE d[i]]
  ELSE Append(d, <<k, v>>)

\* {f.name: f for f in fields}
RECURSIVE ColumnsFrom(_, _)
ColumnsFrom(d, fields) ==
  IF fields = <<>> THEN d
  ELSE ColumnsFrom(DictPut(d, Head(fields).name, Head(fields)), Tail(fields))

-----------------------------------------------------------------------------
(* DatasetSchema *)

FieldsName == <<"f", "i", "e", "l", "d", "s">>

\* a fault to test against: FloatField among the supported types
SupportedTypesWithFloat == {"Int", "Long", "String", "Bool", "Float"}

\* supported_types = [IntField, LongField, StringField, BoolField]
SupportedTypes == {"Int", "Long", "String", "Bool"}

\* a fault to test against: the column's type tested before its required flag
CheckKeyTypeFirst(columns, key) ==
  IF ~DictHas(columns, key)
  THEN Raise("WickerSchemaException", [tag |-> "pk_not_found", key |-> key])
  ELSE IF DictAt(columns, key).kind \notin SupportedTypes
  THEN Raise("WickerSchemaException", [tag |-> "pk_bad_type", key |-> key])
  ELSE IF ~DictAt(columns, key).required
  THEN Raise("WickerSchemaException", [tag |-> "pk_not_required", key |-> key])
  ELSE Ok(<<>>)

\* the three checks of one key, in the order of the loop body
CheckKey(columns, key) ==
  IF ~DictHas(columns, key)
  THEN Raise("WickerSchemaException", [tag |-> "pk_not_found", key |-> key])
  ELSE IF ~DictAt(columns, key).required
  THEN Raise("WickerSchemaException", [tag |-> "pk_not_required", key |-> key])
  ELSE IF DictAt(columns, key).kind \notin SupportedTypes
  THEN Raise("WickerSchemaException", [tag |-> "pk_bad_type", key |-> key])
  ELSE Ok(<<>>)

\* for key in self.primary_keys: ...
RECURSIVE CheckKeys(_, _)
CheckKeys(columns, keys) ==
  IF keys = <<>> THEN Ok(<<>>)
  ELSE LET r == CheckKey(columns, Head(keys))
       IN  IF ~IsOk(r) THEN r ELSE CheckKeys(columns, Tail(keys))

\* DatasetSchema._validate_schema
ValidateSchema(columns, primary_keys, allow_empty_primary_keys) ==
  IF ~allow_empty_primary_keys /\ primary_keys = <<>>
  THEN Raise("WickerSchemaException", [tag |-> "pk_empty"])
  ELSE CheckKeys(columns, primary_keys)

\* DatasetSchema.__init__
DatasetSchema(fields, primary_keys, allow_empty_primary_keys) ==
  LET root == RecordField(FieldsName, fields, "", TRUE,
                          { <<PRIMARY_KEYS_TAG, <<"json", primary_keys>> >> }, TRUE)
      columns == ColumnsFrom(<<>>, fields)
      checked == ValidateSchema(columns, primary_keys, allow_empty_primary_keys)
  IN  IF ~IsOk(root) THEN root
      ELSE IF ~IsOk(checked) THEN checked
      ELSE Ok([schema_record |-> root.value,
               columns |-> columns,
               primary_keys |-> primary_keys])

\* DatasetSchema.get_all_column_names
GetAllColumnNames(s) == DictKeys(s.columns)

\* DatasetSchema.get_column: self._columns.get(column_name); None is <<>>
GetColumn(s, column_name) ==
  IF DictHas(s.columns, column_name) THEN <<DictAt(s.columns, column_name)>> ELSE <<>>

\* [col_name for col_name, field in d.items() if field.is_heavy_pointer]
RECURSIVE PointerKeys(_)
PointerKeys(d) ==
  IF d = <<>> THEN <<>>
  ELSE (IF IsHeavyPointer(Head(d)[2]) THEN <<Head(d)[1]>> ELSE <<>>)
       \o PointerKeys(Tail(d))

\* [col_name for col_name, field in d.items() if not field.is_heavy_pointer]
RECURSIVE NonPointerKeys(_)
NonPointerKeys(d) ==
  IF d = <<>> THEN <<>>
  ELSE (IF ~IsHeavyPointer(Head(d)[2]) THEN <<Head(d)[1]>> ELSE <<>>)
       \o NonPointerKeys(Tail(d))

\* DatasetSchema.get_pointer_columns
GetPointerColumns(s) == PointerKeys(s.columns)

\* DatasetSchema.get_non_pointer_columns
GetNonPointerColumns(s) == NonPointerKeys(s.columns)

\* a value that is no DatasetSchema (the `other` of a comparison)
NotASchema == [schema_record |-> Foreign, columns |-> <<>>, primary_keys |-> <<>>]

\* isinstance(other, DatasetSchema)
IsDatasetSchema(other) == other.schema_record.kind = "Record"

\* DatasetSchema.__eq__
DatasetSchemaEq(self, other) ==
  IF ~IsDatasetSchema(other) THEN Ok(FALSE)
  ELSE LET r == FieldEq(self.schema_record, other.schema_record)
       IN  IF ~IsOk(r) THEN r
           ELSE Ok(r.value /\ self.primary_keys = other.primary_keys)

-----------------------------------------------------------------------------
(* Visitors *)

Methods ==
  {"process_int_field", "process_long_field", "process_string_field",
   "process_bool_field", "process_float_field", "process_double_field",
   "process_object_field", "process_record_field", "process_array_field"}

\* what visitor v's method m returns for field f: the visitor is the
\* caller's, so its result is an uninterpreted term
VisitorResult(v, m, f) == [visitor |-> v, method |-> m, field |-> f]

\* one call visitor.m(f): the call made and the value it returned
Dispatch(v, m, f) ==
  [calls |-> << [method |-> m, field |-> f] >>, value |-> VisitorResult(v, m, f)]

\* accept_visitor of FloatField
AcceptFloat(self, visitor) == Dispatch(visitor, "process_float_field", self)

\* a fault to test against: the Array visiting its element as well
AcceptArrayDescending(self, visitor) ==
  LET r == Dispatch(visitor, "process_array_field", self)
  IN  [calls |-> r.calls \o << [method |-> "process_int_field",
                                field |-> self.element_field[1]] >>,
       value |-> r.value]

\* accept_visitor of ArrayField
AcceptArray(self, visitor) == Dispatch(visitor, "process_array_field", self)

\* self.accept_visitor(visitor): the method of self's class
AcceptVisitor(self, visitor) ==
  CASE self.kind = "Int"    -> Dispatch(visitor, "process_int_field", self)
    [] self.kind = "Long"   -> Dispatch(visitor, "process_long_field", self)
    [] self.kind = "String" -> Dispatch(visitor, "process_string_field", self)
    [] self.kind = "Bool"   -> Dispatch(visitor, "process_bool_field", self)
    [] self.kind = "Float"  -> AcceptFloat(self, visitor)
    [] self.kind = "Double" -> Dispatch(visitor, "process_double_field", self)
    [] self.kind = "Record" -> Dispatch(visitor, "process_record_field", self)
    [] self.kind = "Array"  -> AcceptArray(self, visitor)
    [] self.kind = "Object" -> Dispatch(visitor, "process_object_field", self)


-----------------------------------------------------------------------------
(* The values calls are made with.  Every field handed to a constructor, a   *)
(* comparison or a schema is one the constructors above return.              *)

NameA == <<"a">>
NameB == <<"b">>

Descriptions == {"", "d"}

C1 == [name |-> "c1", params |-> 0]
C2 == [name |-> "c2", params |-> 1]

\* a codec whose get_codec_name() is empty
CEmpty == [name |-> "", params |-> 0]

Codecs == {C1, C2, CEmpty}

Visitors == {"v1", "v2"}

\* the values of the successful outcomes in S
Built(S) == { r.value : r \in { x \in S : IsOk(x) } }

Scalars(kinds, names, descriptions, requireds) ==
  Built({ ScalarField(k, n, d, q, {}) :
            k \in kinds, n \in names, d \in descriptions, q \in requireds })

Objects(names, codecs, requireds, heavies) ==
  Built({ ObjectField(n, c, "", q, h) :
            n \in names, c \in codecs, q \in requireds, h \in heavies })

Arrays(elements, requireds) ==
  Built({ ArrayField(e, q) : e \in elements, q \in requireds })

\* Records of no member and of one member
Records(names, members, requireds, tops) ==
  Built({ RecordField(n, fs, "", q, {}, t) :
            n \in names, fs \in SeqsUpTo(members, 1), q \in requireds, t \in tops })

\* elements ArrayField is built over
ElementPool ==
  Scalars({"Int", "Float"}, {NameA}, Descriptions, BOOLEAN)
  \cup Objects({NameA}, {C1}, {TRUE}, BOOLEAN)
  \cup Records({NameB}, Scalars({"Int"}, {NameA}, {""}, {TRUE}), {TRUE}, {FALSE})

\* members RecordField is built over
MemberPool ==
  Scalars({"Int"}, {NameA, NameB}, {""}, {TRUE})
  \cup Scalars({"Float"}, {NameA}, {""}, {FALSE})
  \cup Objects({NameA, NameB}, {C1}, {TRUE}, {TRUE})
  \cup Objects({NameA}, {C1}, {TRUE}, {FALSE})
  \cup Arrays(Objects({NameA}, {C1}, {TRUE}, {TRUE}), {TRUE})
  \cup Arrays(Scalars({"Int"}, {NameA}, {""}, {TRUE}), {TRUE})
  \cup Records({NameA}, Objects({NameB}, {C1}, {TRUE}, {TRUE}), {TRUE}, {TRUE})
  \cup Records({NameB}, Scalars({"Int"}, {NameA}, {""}, {TRUE}), {TRUE}, {FALSE})

\* names RecordField is built with: two in the grammar, one outside it
RecordNames == {NameA, NameB, <<"_">>}

\* top-level fields DatasetSchema is built over: every variant, required
\* and not, heavy and not, under two names
TopFields ==
  Scalars(ScalarKinds, {NameA}, {""}, {TRUE})
  \cup Scalars({"Int", "Float"}, {NameB}, {""}, BOOLEAN)
  \cup Scalars({"Int"}, {NameA}, {""}, {FALSE})
  \cup Objects({NameB}, {C1}, {TRUE}, {TRUE})
  \cup Objects({NameA}, {C1}, {TRUE}, {FALSE})
  \cup Arrays(Scalars({"Int"}, {NameA}, {""}, {TRUE}), {TRUE})
  \cup Records({NameB}, Scalars({"Int"}, {NameA}, {""}, {TRUE}), {TRUE}, {FALSE})

\* primary keys are drawn from the two column names
KeyNames == {NameA, NameB}

\* the fields compared with ==
EqMembers ==
  Scalars({"Int"}, {NameA, NameB}, {""}, {TRUE})
  \cup Scalars({"Int"}, {NameA}, {""}, {FALSE})
  \cup Scalars({"Long"}, {NameA}, {""}, {TRUE})
  \cup Records({NameA}, Scalars({"Int"}, {NameA}, {""}, {TRUE}), {TRUE}, {FALSE})

EqPool ==
  Scalars(ScalarKinds, {NameA}, {""}, {TRUE})
  \cup Scalars({"Int"}, {NameA, NameB}, Descriptions, BOOLEAN)
  \cup Objects({NameA}, {C1, C2}, {TRUE}, BOOLEAN)
  \cup Arrays(Scalars({"Int", "Long"}, {NameA}, {""}, BOOLEAN)
              \cup Objects({NameA}, {C1}, {TRUE}, {TRUE}), BOOLEAN)
  \cup Records({NameA, NameB}, Scalars({"Int"}, {NameA}, {""}, {TRUE}), BOOLEAN, {TRUE})
  \cup Built({ RecordField(NameA, fs, "", TRUE, {}, FALSE) :
                 fs \in SeqsUpTo(EqMembers, MaxFields) })

\* the schemas compared with ==
SchemaEqFields ==
  Scalars({"Int"}, {NameA}, {""}, {TRUE})
  \cup Records({NameB}, Scalars({"Int"}, {NameA}, {""}, BOOLEAN), {TRUE}, {FALSE})
  \cup Records({NameB}, Scalars({"Int"}, {NameB}, {""}, {TRUE}), {TRUE}, {FALSE})
  \cup Records({NameB}, Scalars({"Long"}, {NameA}, {""}, {TRUE}), {TRUE}, {FALSE})

SchemaPool ==
  Built({ DatasetSchema(fs, ks, TRUE) :
            fs \in SeqsUpTo(SchemaEqFields, MaxFields), ks \in {<<>>, <<NameA>>} })

-----------------------------------------------------------------------------
(* The calls *)

FieldOps == {"Scalar", "Object", "Array", "Record"}

\* the dictionary object that is the default of the custom_field_tags
\* parameter of SchemaField.__init__
DefaultOfSchemaField == 0

\* the dictionary object that is the default of the custom_field_tags
\* parameter of RecordField.__init__
DefaultOfRecordField == 1

Init ==
  /\ call = [op |-> "none"]
  /\ ret = Ok(<<>>)
  /\ visits = <<>>
  /\ heap = <<>>
  /\ store = [d \in {DefaultOfSchemaField, DefaultOfRecordField} |-> {}]

\* no call has been made, or its outcome has been dropped
Idle == call.op = "none"

NewScalar ==
  /\ Idle
  /\ \E kind \in ScalarKinds, name \in Names, description \in Descriptions, required \in BOOLEAN :
     /\ call' = [op |-> "Scalar", kind |-> kind, name |-> name,
                 description |-> description, required |-> required]
     /\ ret' = ScalarField(kind, name, description, required, {})
     /\ visits' = <<>>
     /\ UNCHANGED <<heap, store>>

NewObject ==
  /\ Idle
  /\ \E name \in Names, codec \in Codecs, required \in BOOLEAN, is_heavy_pointer \in BOOLEAN :
     /\ call' = [op |-> "Object", name |-> name, codec |-> codec,
                 required |-> required, is_heavy_pointer |-> is_heavy_pointer]
     /\ ret' = ObjectField(name, codec, "", required, is_heavy_pointer)
     /\ visits' = <<>>
     /\ UNCHANGED <<heap, store>>

NewArray ==
  /\ Idle
  /\ \E element_field \in ElementPool, required \in BOOLEAN :
     /\ call' = [op |-> "Array", element_field |-> element_field, required |-> required]
     /\ ret' = ArrayField(element_field, required)
     /\ visits' = <<>>
     /\ UNCHANGED <<heap, store>>

NewRecord ==
  /\ Idle
  /\ \E name \in RecordNames, fields \in SeqsUpTo(MemberPool, MaxFields),
     required \in BOOLEAN, top_level \in BOOLEAN :
     /\ call' = [op |-> "Record", name |-> name, fields |-> fields,
                 required |-> required, top_level |-> top_level]
     /\ ret' = RecordField(name, fields, "", required, {}, top_level)
     /\ visits' = <<>>
     /\ UNCHANGED <<heap, store>>

NewSchema ==
  /\ Idle
  /\ \E fields \in SeqsUpTo(TopFields, MaxFields), primary_keys \in SeqsUpTo(KeyNames, MaxKeys),
     allow_empty_primary_keys \in BOOLEAN :
     /\ call' = [op |-> "DatasetSchema", fields |-> fields, primary_keys |-> primary_keys,
                 allow_empty_primary_keys |-> allow_empty_primary_keys]
     /\ ret' = DatasetSchema(fields, primary_keys, allow_empty_primary_keys)
     /\ visits' = <<>>
     /\ UNCHANGED <<heap, store>>

\* a query is made on the schema the last call built
HaveSchema == call.op = "DatasetSchema" /\ IsOk(ret)

CallGetAllColumnNames ==
  /\ HaveSchema
  /\ call' = [op |-> "get_all_column_names", self |-> ret.value]
  /\ ret' = Ok(GetAllColumnNames(ret.value))
  /\ UNCHANGED <<visits, heap, store>>

CallGetColumn ==
  /\ HaveSchema
  /\ \E column_name \in KeyNames \cup {<<"c">>} :
        /\ call' = [op |-> "get_column", self |-> ret.value, column_name |-> column_name]
        /\ ret' = Ok(GetColumn(ret.value, column_name))
  /\ UNCHANGED <<visits, heap, store>>

CallGetPointerColumns ==
  /\ HaveSchema
  /\ call' = [op |-> "get_pointer_columns", self |-> ret.value]
  /\ ret' = Ok(GetPointerColumns(ret.value))
  /\ UNCHANGED <<visits, heap, store>>

CallGetNonPointerColumns ==
  /\ HaveSchema
  /\ call' = [op |-> "get_non_pointer_columns", self |-> ret.value]
  /\ ret' = Ok(GetNonPointerColumns(ret.value))
  /\ UNCHANGED <<visits, heap, store>>

\* self == other on two fields
CompareFields ==
  /\ Idle
  /\ \E self \in EqPool, other \in EqPool \cup {Foreign} :
     /\ call' = [op |-> "field_eq", self |-> self, other |-> other]
     /\ ret' = FieldEq(self, other)
     /\ visits' = <<>>
     /\ UNCHANGED <<heap, store>>

\* self == other on two schemas
CompareSchemas ==
  /\ Idle
  /\ \E self \in SchemaPool, other \in SchemaPool \cup {NotASchema} :
     /\ call' = [op |-> "schema_eq", self |-> self, other |-> other]
     /\ ret' = DatasetSchemaEq(self, other)
     /\ visits' = <<>>
     /\ UNCHANGED <<heap, store>>

\* accept_visitor on the field the last call built
CallAcceptVisitor ==
  /\ call.op \in FieldOps
  /\ IsOk(ret)
  /\ \E visitor \in Visitors :
        LET r == AcceptVisitor(ret.value, visitor)
        IN  /\ call' = [op |-> "accept_visitor", self |-> ret.value, visitor |-> visitor]
            /\ ret' = Ok(r.value)
            /\ visits' = r.calls
  /\ UNCHANGED <<heap, store>>

\* the caller drops the outcome of the last call
Discard ==
  /\ ~Idle
  /\ call' = [op |-> "none"]
  /\ ret' = Ok(<<>>)
  /\ visits' = <<>>
  /\ UNCHANGED <<heap, store>>

Next ==
  \/ NewScalar
  \/ NewObject
  \/ NewArray
  \/ NewRecord
  \/ NewSchema
  \/ CallGetAllColumnNames
  \/ CallGetColumn
  \/ CallGetPointerColumns
  \/ CallGetNonPointerColumns
  \/ CompareFields
  \/ CompareSchemas
  \/ CallAcceptVisitor
  \/ Discard

Spec == Init /\ [][Next]_vars


-----------------------------------------------------------------------------
(* Properties *)

\* the grammar ^[A-Za-z][A-Za-z0-9_]*$ matched against the whole name
InGrammar(name) ==
  /\ Len(name) >= 1
  /\ IsAlpha(name[1])
  /\ \A i \in 2..Len(name) : IsWord(name[i])

\* the column a key names: the entry the column index holds under that name,
\* which is the last of the fields with the name
NamesColumn(fields, key) == \E i \in 1..Len(fields) : fields[i].name = key

ColumnNamed(fields, key) ==
  fields[CHOOSE i \in 1..Len(fields) :
           /\ fields[i].name = key
           /\ \A j \in (i+1)..Len(fields) : fields[j].name # key]

KeyExists(fields, key) == NamesColumn(fields, key)

KeyRequired(fields, key) == ColumnNamed(fields, key).required

KeyTyped(fields, key) == ColumnNamed(fields, key).kind \in {"Int", "Long", "String", "Bool"}

PrimaryKeyRules(fields, primary_keys) ==
  /\ primary_keys # <<>>
  /\ \A i \in 1..Len(primary_keys) :
        /\ KeyExists(fields, primary_keys[i])
        /\ KeyRequired(fields, primary_keys[i])
        /\ KeyTyped(fields, primary_keys[i])

\* C1: with allow_empty_primary_keys unset, DatasetSchema construction succeeds
\* exactly when primary_keys is non-empty and every key names an existing
\* column that is required and of variant Int, Long, String or Bool; the schema
\* built reports such a column for every one of its keys, and a failing
\* construction returns no schema.
C1_PrimaryKeysValid ==
  (call.op = "DatasetSchema" /\ ~call.allow_empty_primary_keys) =>
     /\ IsOk(ret) <=> PrimaryKeyRules(call.fields, call.primary_keys)
     /\ IsOk(ret) =>
          /\ ret.value.primary_keys = call.primary_keys
          /\ ret.value.primary_keys # <<>>
          /\ \A i \in 1..Len(ret.value.primary_keys) :
                LET col == GetColumn(ret.value, ret.value.primary_keys[i])
                IN  /\ col # <<>>
                    /\ col[1].required
                    /\ col[1].kind \in {"Int", "Long", "String", "Bool"}
                    /\ col[1].kind \notin {"Float", "Double", "Array", "Record", "Object"}
     /\ ~IsOk(ret) => ret.kind = "WickerSchemaException"

\* a schema with two primary keys was built with the flag unset
C1_Witness ==
  /\ call.op = "DatasetSchema"
  /\ ~call.allow_empty_primary_keys
  /\ IsOk(ret)
  /\ Len(call.primary_keys) = 2
  /\ call.primary_keys[1] # call.primary_keys[2]

\* C2: a field is constructed (its other arguments valid) if and only if its
\* name matches the grammar in full; the empty name, a name starting with a
\* digit or an underscore, and a name holding any other character, a trailing
\* line break included, are rejected.
C2_NameGrammar ==
  /\ call.op = "Scalar" => (IsOk(ret) <=> InGrammar(call.name))
  /\ (call.op = "Object" /\ call.codec.name # "") => (IsOk(ret) <=> InGrammar(call.name))

\* the names of the members with is_heavy_pointer = true, in field order
HeavyMembers(fields) == { i \in 1..Len(fields) : IsHeavyPointer(fields[i]) }

ListsHeavyMembers(names, fields) ==
  /\ Len(names) = Cardinality(HeavyMembers(fields))
  /\ \A i \in HeavyMembers(fields) :
        names[Cardinality({ j \in HeavyMembers(fields) : j <= i })] = fields[i].name

\* C3: constructing a Record (with a name in the grammar) fails exactly when
\* top_level is false and a direct member has is_heavy_pointer = true; the
\* error then lists the names of exactly those members, in field order; a
\* top_level Record never fails because of a heavy-pointer member.
C3_HeavyNesting ==
  (call.op = "Record" /\ InGrammar(call.name)) =>
     /\ ~IsOk(ret) <=> (~call.top_level /\ HeavyMembers(call.fields) # {})
     /\ ~IsOk(ret) =>
          /\ ret.msg.tag = "heavy_nested"
          /\ ListsHeavyMembers(ret.msg.names, call.fields)
     /\ call.top_level => IsOk(ret)
     /\ IsOk(ret) => ret.value.fields = call.fields

\* a non-top-level Record was refused for two heavy members, one light between
C3_Witness ==
  /\ call.op = "Record"
  /\ ~call.top_level
  /\ ~IsOk(ret)
  /\ ret.msg.tag = "heavy_nested"
  /\ Len(ret.msg.names) = 2
  /\ ret.msg.names[1] # ret.msg.names[2]

\* the one error kind of the module
SchemaValidationError == "WickerSchemaException"

RECURSIVE Structure(_)
Structure(f) ==
  [variant |-> f.kind,
   name |-> f.name,
   description |-> f.description,
   required |-> f.required,
   payload |-> CASE f.kind = "Record" ->
                      [i \in 1..Len(f.fields) |-> Structure(f.fields[i])]
                 [] f.kind = "Array" -> << Structure(f.element_field[1]) >>
                 [] f.kind = "Object" -> << f.codec >>
                 [] OTHER -> <<>>]

\* C5: field equality is structural equality over the nine variants (same
\* variant, name, description, required, and recursively equal payload), and
\* schema equality is equality of the root records plus identical
\* primary_keys; both are reflexive and symmetric and never raise.
C5_StructuralEquality ==
  /\ call.op = "field_eq" =>
        /\ IsOk(ret)
        /\ ret.value <=> (/\ call.other.kind \in Kinds
                          /\ Structure(call.self) = Structure(call.other))
        /\ FieldEq(call.self, call.self) = Ok(TRUE)
        /\ call.other.kind \in Kinds => FieldEq(call.other, call.self) = ret
  /\ call.op = "schema_eq" =>
        /\ IsOk(ret)
        /\ ret.value <=>
             (/\ IsDatasetSchema(call.other)
              /\ Structure(call.self.schema_record) = Structure(call.other.schema_record)
              /\ call.self.primary_keys = call.other.primary_keys)
        /\ DatasetSchemaEq(call.self, call.self) = Ok(TRUE)
        /\ IsDatasetSchema(call.other) => DatasetSchemaEq(call.other, call.self) = ret

\* two Records that agree on every attribute and on their common members, one
\* having a member more, compared unequal
C5_Witness ==
  /\ call.op = "field_eq"
  /\ call.self.kind = "Record"
  /\ call.other.kind = "Record"
  /\ SchemaFieldEq(call.self, call.other)
  /\ Len(call.self.fields) = 1
  /\ Len(call.other.fields) = 2
  /\ Structure(call.self.fields[1]) = Structure(call.other.fields[1])
  /\ ret = Ok(FALSE)

NamesOf(fields) == [i \in 1..Len(fields) |-> fields[i].name]

\* C6: in a constructed DatasetSchema the names of root.fields are pairwise
\* distinct, get_all_column_names() returns exactly those names, one per member
\* and in order, get_column(f.name) returns f for every member f, and
\* get_column of any other name returns absent.
C6_ColumnsUniqueByName ==
  /\ (call.op = "DatasetSchema" /\ IsOk(ret)) =>
        \A i, j \in 1..Len(ret.value.schema_record.fields) :
           i # j => ret.value.schema_record.fields[i].name
                      # ret.value.schema_record.fields[j].name
  /\ call.op = "get_all_column_names" =>
        ret.value = NamesOf(call.self.schema_record.fields)
  /\ call.op = "get_column" =>
        /\ \A i \in 1..Len(call.self.schema_record.fields) :
              call.self.schema_record.fields[i].name = call.column_name
                 => ret.value = << call.self.schema_record.fields[i] >>
        /\ (\A i \in 1..Len(call.self.schema_record.fields) :
               call.self.schema_record.fields[i].name # call.column_name)
              => ret.value = <<>>

\* the visitor method that corresponds to each variant
CorrespondingMethod(kind) ==
  CASE kind = "Int"    -> "process_int_field"
    [] kind = "Long"   -> "process_long_field"
    [] kind = "String" -> "process_string_field"
    [] kind = "Bool"   -> "process_bool_field"
    [] kind = "Float"  -> "process_float_field"
    [] kind = "Double" -> "process_double_field"
    [] kind = "Array"  -> "process_array_field"
    [] kind = "Record" -> "process_record_field"
    [] kind = "Object" -> "process_object_field"

\* C7: one accept call makes exactly one visitor call, to the method of the
\* field's own variant, with the field itself, and returns that call's result;
\* no call is made for the members of a Record or the element of an Array.
C7_SingleDispatch ==
  call.op = "accept_visitor" =>
     /\ Len(visits) = 1
     /\ visits[1].method = CorrespondingMethod(call.self.kind)
     /\ visits[1].method \in Methods
     /\ visits[1].field = call.self
     /\ ret = Ok(VisitorResult(call.visitor, visits[1].method, call.self))

\* an Array over an element field accepted a visitor
C7_Witness ==
  /\ call.op = "accept_visitor"
  /\ call.self.kind = "Array"
  /\ Len(visits) = 1
  /\ visits[1].method = "process_array_field"

\* the rule a key breaks first, in the order existence, requiredness, type
KeyViolation(fields, key) ==
  IF ~KeyExists(fields, key) THEN "pk_not_found"
  ELSE IF ~KeyRequired(fields, key) THEN "pk_not_required"
  ELSE IF ~KeyTyped(fields, key) THEN "pk_bad_type"
  ELSE "none"

\* the earliest rule, in the order emptiness, existence, requiredness, type,
\* that any key of primary_keys breaks
EarliestRule(fields, primary_keys, allow_empty) ==
  LET Some(v) == \E i \in 1..Len(primary_keys) : KeyViolation(fields, primary_keys[i]) = v
  IN  IF ~allow_empty /\ primary_keys = <<>> THEN "pk_empty"
      ELSE IF \E i \in 1..Len(primary_keys) : ~KeyExists(fields, primary_keys[i])
           THEN "pk_not_found"
      ELSE IF Some("pk_not_required") THEN "pk_not_required"
      ELSE IF Some("pk_bad_type") THEN "pk_bad_type"
      ELSE "none"

\* C8 as stated: the error DatasetSchema raises is the one for the earliest
\* violated rule in the order emptiness, existence, requiredness, type, also
\* when the rules are violated on different keys.
C8_EarliestRuleOverall ==
  (call.op = "DatasetSchema" /\ ~IsOk(ret)) =>
     ret.msg.tag = EarliestRule(call.fields, call.primary_keys,
                                call.allow_empty_primary_keys)

\* the first key of primary_keys that breaks a rule
FirstBadKey(fields, primary_keys) ==
  CHOOSE i \in 1..Len(primary_keys) :
     /\ KeyViolation(fields, primary_keys[i]) # "none"
     /\ \A j \in 1..(i-1) : KeyViolation(fields, primary_keys[j]) = "none"

\* C8 amended: emptiness is checked first; then the keys are checked one by
\* one in the order of primary_keys, each for existence, then requiredness,
\* then type, and the single error raised is the one for the first key that
\* violates a rule and for the earliest rule that key violates.
C8_FirstKeyFirstRule ==
  (call.op = "DatasetSchema" /\ ~IsOk(ret)) =>
     IF ~call.allow_empty_primary_keys /\ call.primary_keys = <<>>
     THEN ret.msg.tag = "pk_empty"
     ELSE LET i == FirstBadKey(call.fields, call.primary_keys)
          IN  /\ ret.msg.key = call.primary_keys[i]
              /\ ret.msg.tag = KeyViolation(call.fields, call.primary_keys[i])

\* the first key names a column of an unsupported type, the second no column:
\* the type error of the first key was raised
C8_Witness ==
  /\ call.op = "DatasetSchema"
  /\ Len(call.primary_keys) = 2
  /\ KeyViolation(call.fields, call.primary_keys[1]) = "pk_bad_type"
  /\ KeyViolation(call.fields, call.primary_keys[2]) = "pk_not_found"
  /\ ~IsOk(ret)
  /\ ret.msg.tag = "pk_bad_type"

\* the fields directly under f
Children(f) ==
  CASE f.kind = "Record" -> f.fields
    [] f.kind = "Array" -> f.element_field
    [] OTHER -> <<>>

\* some heavy-pointer field lies below f inside a Record that is not
\* top_level: as a member of it, as the element of an Array below it, or
\* deeper
RECURSIVE HeavyInsideNonTopLevel(_, _)
HeavyInsideNonTopLevel(f, insideNonTopLevel) ==
  LET cs == Children(f)
      nonTop == insideNonTopLevel \/ (f.kind = "Record" /\ ~f.top_level)
  IN  \E i \in 1..Len(cs) :
         \/ IsHeavyPointer(cs[i]) /\ nonTop
         \/ HeavyInsideNonTopLevel(cs[i], nonTop)

\* C9: in every constructed field tree no heavy-pointer field is located
\* anywhere inside a Record that is not top_level, at any depth, the element
\* of an Array that is a member of that Record included.
C9_NoNestedHeavy ==
  (call.op \in FieldOps /\ IsOk(ret)) => ~HeavyInsideNonTopLevel(ret.value, FALSE)

-----------------------------------------------------------------------------
(* Tag storage.  A dictionary is an object: store maps each dictionary to    *)
(* its content, and a field of the heap holds the dictionary bound to its    *)
(* custom_field_tags attribute.                                              *)

TagKeys == {"k"}
TagValues == {"v1", "v2"}

\* the dictionary bound to the custom_field_tags parameter of
\* SchemaField.__init__: the one passed (<<d>>), or the default object
SchemaFieldTagsArg(passed) == IF passed = <<>> THEN DefaultOfSchemaField ELSE passed[1]

\* the same for RecordField.__init__, which hands its own on to SchemaField
RecordFieldTagsArg(passed) ==
  SchemaFieldTagsArg(<< IF passed = <<>> THEN DefaultOfRecordField ELSE passed[1] >>)

\* the next dictionary object to be created
FreshDict == Cardinality(DOMAIN store)

HeapRoom == Len(heap) < MaxHeap

\* IntField(name), ...: no custom_field_tags given
TagNewScalar ==
  /\ HeapRoom
  /\ heap' = Append(heap, [kind |-> "Scalar", tags |-> SchemaFieldTagsArg(<<>>),
                           given |-> FALSE])
  /\ UNCHANGED <<store, call, ret, visits>>

\* IntField(name, custom_field_tags={}): the caller's own new dictionary
TagNewScalarGiven ==
  /\ HeapRoom
  /\ store' = (FreshDict :> {}) @@ store
  /\ heap' = Append(heap, [kind |-> "Scalar", tags |-> SchemaFieldTagsArg(<<FreshDict>>),
                           given |-> TRUE])
  /\ UNCHANGED <<call, ret, visits>>

\* RecordField(name, fields): no custom_field_tags given
TagNewRecord ==
  /\ HeapRoom
  /\ heap' = Append(heap, [kind |-> "Record", tags |-> RecordFieldTagsArg(<<>>),
                           given |-> FALSE])
  /\ UNCHANGED <<store, call, ret, visits>>

\* ObjectField(name, codec): builds its own dictionary of three tags
TagNewObject ==
  /\ HeapRoom
  /\ store' = (FreshDict :> ObjectTags(C1)) @@ store
  /\ heap' = Append(heap, [kind |-> "Object", tags |-> SchemaFieldTagsArg(<<FreshDict>>),
                           given |-> FALSE])
  /\ UNCHANGED <<call, ret, visits>>

\* ArrayField(element_field): takes the element's dictionary
TagNewArray ==
  /\ HeapRoom
  /\ \E i \in 1..Len(heap) :
        heap' = Append(heap, [kind |-> "Array", tags |-> SchemaFieldTagsArg(<<heap[i].tags>>),
                              given |-> TRUE])
  /\ UNCHANGED <<store, call, ret, visits>>

\* field.custom_field_tags[k] = v, by whoever holds the field
SetTag ==
  /\ \E i \in 1..Len(heap), k \in TagKeys, v \in TagValues :
        store' = [store EXCEPT ![heap[i].tags] =
                    { e \in @ : e[1] # k } \cup { <<k, <<v>> >> }]
  /\ UNCHANGED <<heap, call, ret, visits>>

TagNext ==
  \/ TagNewScalar
  \/ TagNewScalarGiven
  \/ TagNewRecord
  \/ TagNewObject
  \/ TagNewArray
  \/ SetTag

TagSpec == Init /\ [][TagNext]_vars

\* the content of the custom_field_tags of the i-th field
TagsOf(i) == store[heap[i].tags]

\* a field constructed on its own, without custom tags handed to it
Independent(i) == ~heap[i].given

\* C10: fields constructed independently without explicit custom tags never
\* share tag storage: adding or changing an entry in one field's custom_tags
\* leaves the custom_tags of every other such field unchanged.
C10_NoSharedTags ==
  [][\A i, j \in 1..Len(heap) :
        (/\ i # j
         /\ Independent(i)
         /\ Independent(j)
         /\ heap' = heap
         /\ TagsOf(i)' # TagsOf(i))
        => TagsOf(j)' = TagsOf(j)]_vars

====
